---------------------------- MODULE Spec2Model ----------------------------
(***************************************************************************)
(* Authentication bridge of the plugin system: the extension-side          *)
(* AuthenticationExtImpl (provider map, getSession) and the host-side      *)
(* AuthenticationServiceImpl (provider map, sign-in request map, event     *)
(* emitters).                                                              *)
(*                                                                         *)
(* Strings that are sorted or joined (scopes) are sequences of character   *)
(* codes: " " is 0, "a" is 1, "b" is 2, "c" is 3, so that the order of the *)
(* codes is the order of the UTF-16 code units.  A JavaScript Map or       *)
(* object is a sequence of [k, v] entries in insertion order.              *)
(***************************************************************************)
EXTENDS Naturals, Sequences, FiniteSets, TLC

VARIABLES
    hostProviders,        \* AuthenticationServiceImpl._authenticationProviders
    signInRequestItems,   \* AuthenticationServiceImpl._signInRequestItems
    placeholderMenuItem,  \* AuthenticationServiceImpl._placeholderMenuItem
    noAccountsMenuItem,   \* AuthenticationServiceImpl._noAccountsMenuItem
    badgeDisposable,      \* AuthenticationServiceImpl._badgeDisposable
    hostDisposed,         \* number of dispose() calls each host provider object received
    hostTask,             \* the sessionsUpdate call that is suspended at an await
    storage,              \* the StorageService: its data, and the last readAllowedExtensions call
    extProviders,         \* AuthenticationExtImpl.authenticationProviders
    listeners,            \* the listeners AuthenticationExtImpl has on each provider's onDidChangeSessions
    sessions,             \* the sessions each extension provider object holds
    calls,                \* the getSession call of each plugin, with its position
    trusted,              \* (provider, account, extension) triples recorded as trusted
    last,                 \* the last completed synchronous operation, its result and effects
    probe                 \* two scope arrays, a session list, and what the code computes of them

vars == <<hostProviders, signInRequestItems, placeholderMenuItem, noAccountsMenuItem,
          badgeDisposable, hostDisposed, hostTask, storage, extProviders, listeners, sessions,
          calls, trusted, last, probe>>

hostVars == <<hostProviders, signInRequestItems, placeholderMenuItem, noAccountsMenuItem,
              badgeDisposable, hostDisposed, hostTask, storage>>

extVars == <<extProviders, listeners, sessions, calls, trusted, probe>>

----------------------------------------------------------------------------
(* Bounds *)

MaxSessions == 2
MaxScopes == 2

----------------------------------------------------------------------------
(* Values *)

Undefined == "undefined"

ProviderIds == {"acme", "beta"}

\* Extension provider objects: A1 and A2 both have id "acme".
ExtObjs == {"A1", "A2", "B1"}
ExtObjId(o) == IF o = "B1" THEN "beta" ELSE "acme"
ExtObjMulti(o) == o # "A1"

\* Host provider objects: H1 and H2 both have id "acme".
HostObjs == {"H1", "H2", "H3"}
HostObjId(h) == IF h = "H3" THEN "beta" ELSE "acme"

Accounts == {"alice", "bob"}

\* Plugins, by model.id; toLowerCase maps an id to its extension id.
Plugins == {"Ext.Foo", "ext.bar"}
toLowerCase(s) == IF s = "Ext.Foo" THEN "ext.foo" ELSE s
ExtensionIds == {toLowerCase(p) : p \in Plugins}

\* Scope strings "a", "b" and the scope arrays callers pass.
scA == <<1>>
scB == <<2>>
ScopeArrays == {<<scA>>, <<scB, scA>>}

\* Scope strings "a", "b", "ab", "a b" and the arrays of at most MaxScopes of them.
ScopeStrings == {<<1>>, <<2>>, <<1, 2>>, <<1, 0, 2>>}
ProbeArrays == UNION {[1..n -> ScopeStrings] : n \in 0..MaxScopes}

SessionEvents ==
    {[added |-> <<1>>, removed |-> <<>>, changed |-> <<>>],
     [added |-> <<>>, removed |-> <<1>>, changed |-> <<>>]}

----------------------------------------------------------------------------
(* Strings and arrays *)

\* s < t in the order of code units (the order of Array.prototype.sort()).
RECURSIVE StrLess(_, _)
StrLess(s, t) ==
    IF t = <<>> THEN FALSE
    ELSE IF s = <<>> THEN TRUE
    ELSE IF Head(s) # Head(t) THEN Head(s) < Head(t)
    ELSE StrLess(Tail(s), Tail(t))

RECURSIVE InsertSorted(_, _)
InsertSorted(x, arr) ==
    IF arr = <<>> THEN <<x>>
    ELSE IF StrLess(x, Head(arr)) THEN <<x>> \o arr
    ELSE <<Head(arr)>> \o InsertSorted(x, Tail(arr))

\* Mutant of sort: the array is left in the order given.
sort_Unsorted(arr) == arr

\* Array.prototype.sort() without a comparator.
RECURSIVE sort(_)
sort(arr) == IF arr = <<>> THEN <<>> ELSE InsertSorted(Head(arr), sort(Tail(arr)))

\* Array.prototype.join(sep).
RECURSIVE join(_, _)
join(arr, sep) ==
    IF arr = <<>> THEN <<>>
    ELSE IF Len(arr) = 1 THEN arr[1]
    ELSE arr[1] \o sep \o join(Tail(arr), sep)

\* scopes.sort().join(' ') of AuthenticationExtImpl.
ExtScopeKey(scopes) == join(sort(scopes), <<0>>)

\* scopes.sort().join('') of AuthenticationServiceImpl.
HostScopeKey(scopes) == join(sort(scopes), <<>>)

----------------------------------------------------------------------------
(* Maps in insertion order *)

MapHas(m, k) == \E i \in 1..Len(m) : m[i].k = k
MapGet(m, k) == m[CHOOSE i \in 1..Len(m) : m[i].k = k].v
MapSet(m, k, v) ==
    IF MapHas(m, k)
    THEN [i \in 1..Len(m) |-> IF m[i].k = k THEN [k |-> k, v |-> v] ELSE m[i]]
    ELSE Append(m, [k |-> k, v |-> v])
MapDelete(m, k) == SelectSeq(m, LAMBDA e : e.k # k)
SeqToSet(s) == {s[i] : i \in 1..Len(s)}

\* An effect of an operation: an event fired, a provider disposed, a call into a
\* provider.  seen is what isAuthenticationProviderRegistered(id) answers to an
\* observer at that moment.
Eff(e, id, obj, seen) == [e |-> e, id |-> id, obj |-> obj, seen |-> seen]

Done(op, id, result, effects) == [op |-> op, id |-> id, result |-> result, effects |-> effects]

----------------------------------------------------------------------------
(* Extension side: the providers' own state *)

\* $getSessions(providerId): the sessions of the provider registered under providerId.
Ext_getSessions(providers, sess, providerId) ==
    IF MapHas(providers, providerId)
    THEN [ok |-> TRUE, sessions |-> sess[MapGet(providers, providerId)]]
    ELSE [ok |-> FALSE, sessions |-> <<>>]

\* The number of sessions of all providers.
TotalSessions == Len(sessions["A1"]) + Len(sessions["A2"]) + Len(sessions["B1"])

\* A session id no session of the provider has.
FreshId(list) == CHOOSE n \in 1..(Len(list) + 1) : \A i \in 1..Len(list) : list[i].id # n

\* provider.login(scopes): the provider creates a session for the scopes it is given.
\* The access token of a session: one for each session of each provider.
AccessToken(o, id) == "token-" \o o \o "-" \o ToString(id)

NewSession(o, list, scopes, account) ==
    [id |-> FreshId(list), account |-> account, scopes |-> scopes,
     accessToken |-> AccessToken(o, FreshId(list))]
ProviderLogin(sess, o, scopes, account) ==
    [sess EXCEPT ![o] = Append(@, NewSession(o, @, scopes, account))]

\* provider.logout(sessionId): the provider drops the session.
ProviderLogout(sess, o, sessionId) ==
    [sess EXCEPT ![o] = SelectSeq(@, LAMBDA x : x.id # sessionId)]

\* $login(providerId, scopes)
Ext_login(providers, sess, providerId, scopes, account) ==
    IF MapHas(providers, providerId)
    THEN [ok |-> TRUE, sessions |-> ProviderLogin(sess, MapGet(providers, providerId), scopes, account)]
    ELSE [ok |-> FALSE, sessions |-> sess]

\* $logout(providerId, sessionId)
Ext_logout(providers, sess, providerId, sessionId) ==
    IF MapHas(providers, providerId)
    THEN [ok |-> TRUE, sessions |-> ProviderLogout(sess, MapGet(providers, providerId), sessionId)]
    ELSE [ok |-> FALSE, sessions |-> sess]

----------------------------------------------------------------------------
(* Host side: AuthenticationServiceImpl *)

\* The provider object of the host relays to the extension side, under its own id.
HostProvider_getSessions(h) == Ext_getSessions(extProviders, sessions, HostObjId(h))
HostProvider_hasSessions(h) == HostProvider_getSessions(h).sessions # <<>>
HostProvider_login(h, scopes, account) ==
    Ext_login(extProviders, sessions, HostObjId(h), scopes, account)
HostProvider_logout(h, sessionId) == Ext_logout(extProviders, sessions, HostObjId(h), sessionId)

getProviderIds == [i \in 1..Len(hostProviders) |-> HostObjId(hostProviders[i].v)]

isAuthenticationProviderRegistered(id) == MapHas(hostProviders, id)

\* updateAccountsMenuItem: the value of _noAccountsMenuItem it leaves.
updateAccountsMenuItem(providers, item) ==
    LET hasSession == \E i \in 1..Len(providers) : HostProvider_hasSessions(providers[i].v)
    IN  IF hasSession /\ item # Undefined THEN Undefined ELSE item

registerAuthenticationProvider(id, h) ==
    \* h is a provider object made for this registration
    /\ \A i \in 1..Len(hostProviders) : hostProviders[i].v # h
    /\ hostDisposed' = [hostDisposed EXCEPT ![h] = 0]
    /\ hostProviders' = MapSet(hostProviders, id, h)
    /\ placeholderMenuItem' = Undefined
    /\ noAccountsMenuItem' = updateAccountsMenuItem(hostProviders', noAccountsMenuItem)
    /\ last' = Done("registerAuthenticationProvider", id, "ok",
                    <<Eff("onDidRegisterAuthenticationProvider", id, h, MapHas(hostProviders', id))>>)
    /\ UNCHANGED <<signInRequestItems, badgeDisposable, hostTask, storage>>
    /\ UNCHANGED extVars

\* Mutant of unregisterAuthenticationProvider: the event is fired before the delete.
unregisterAuthenticationProvider_FireFirst(id) ==
    /\ IF MapHas(hostProviders, id)
       THEN LET provider == MapGet(hostProviders, id) IN
            /\ hostDisposed' = [hostDisposed EXCEPT ![provider] = @ + 1]
            /\ hostProviders' = MapDelete(hostProviders, id)
            /\ noAccountsMenuItem' = updateAccountsMenuItem(hostProviders', noAccountsMenuItem)
            /\ last' = Done("unregisterAuthenticationProvider", id, "ok",
                            <<Eff("dispose", id, provider, MapHas(hostProviders, id)),
                              Eff("onDidUnregisterAuthenticationProvider", id, provider,
                                  MapHas(hostProviders, id))>>)
       ELSE /\ UNCHANGED <<hostDisposed, hostProviders, noAccountsMenuItem>>
            /\ last' = Done("unregisterAuthenticationProvider", id, "ok", <<>>)
    /\ UNCHANGED <<signInRequestItems, placeholderMenuItem, badgeDisposable, hostTask, storage>>
    /\ UNCHANGED extVars

unregisterAuthenticationProvider(id) ==
    /\ IF MapHas(hostProviders, id)
       THEN LET provider == MapGet(hostProviders, id) IN
            /\ hostDisposed' = [hostDisposed EXCEPT ![provider] = @ + 1]
            /\ hostProviders' = MapDelete(hostProviders, id)
            /\ noAccountsMenuItem' = updateAccountsMenuItem(hostProviders', noAccountsMenuItem)
            /\ last' = Done("unregisterAuthenticationProvider", id, "ok",
                            <<Eff("dispose", id, provider, MapHas(hostProviders, id)),
                              Eff("onDidUnregisterAuthenticationProvider", id, provider,
                                  MapHas(hostProviders', id))>>)
       ELSE /\ UNCHANGED <<hostDisposed, hostProviders, noAccountsMenuItem>>
            /\ last' = Done("unregisterAuthenticationProvider", id, "ok", <<>>)
    /\ UNCHANGED <<signInRequestItems, placeholderMenuItem, badgeDisposable, hostTask, storage>>
    /\ UNCHANGED extVars


\* The body of the forEach of updateNewSessionRequests: the requests that stay.
RequestCompleted(sess, requestedScopes) ==
    \E i \in 1..Len(sess) : HostScopeKey(sess[i].scopes) = requestedScopes

RemainingRequests(info, sess) == SelectSeq(info, LAMBDA e : ~RequestCompleted(sess, e.k))

\* The handles the forEach disposes, in order.
RECURSIVE DisposedHandles(_, _, _)
DisposedHandles(info, sess, id) ==
    IF info = <<>> THEN <<>>
    ELSE (IF RequestCompleted(sess, info[1].k)
          THEN [i \in 1..Len(info[1].v.disposables) |->
                    Eff("dispose", id, info[1].v.disposables[i], TRUE)]
          ELSE <<>>) \o DisposedHandles(Tail(info), sess, id)

\* updateNewSessionRequests(provider): the map, the badge and the effects it leaves.
updateNewSessionRequests(items, badge, provider) ==
    LET pid == HostObjId(provider) IN
    IF ~MapHas(items, pid)
    THEN [ok |-> TRUE, items |-> items, badge |-> badge, effects |-> <<>>]
    ELSE LET got == HostProvider_getSessions(provider)
             existing == MapGet(items, pid)
             remaining == RemainingRequests(existing, got.sessions)
             changed == Len(remaining) < Len(existing)
             after == IF ~changed THEN items
                      ELSE IF remaining = <<>> THEN MapDelete(items, pid)
                      ELSE MapSet(items, pid, remaining)
         IN  IF ~got.ok
             THEN [ok |-> FALSE, items |-> items, badge |-> badge, effects |-> <<>>]
             ELSE [ok |-> TRUE, items |-> after,
                   badge |-> IF changed /\ after = <<>> THEN Undefined ELSE badge,
                   effects |-> DisposedHandles(existing, got.sessions, pid)]

NoEvent == [added |-> <<>>, removed |-> <<>>, changed |-> <<>>]

\* The event as it is written in an effect: which of SessionEvents it is.
EventName(event) ==
    IF event.added # <<>> THEN "added" ELSE IF event.removed # <<>> THEN "removed" ELSE "none"
IdleTask == [pc |-> "idle", id |-> Undefined, event |-> NoEvent, provider |-> Undefined]

\* Mutant of sessionsUpdate: the event is fired only for a registered provider.
sessionsUpdate_NotifyIfRegistered(id, event) ==
    /\ hostTask.pc = "idle"
    /\ IF MapHas(hostProviders, id)
       THEN /\ hostTask' = [pc |-> "updateSessionItems", id |-> id, event |-> event,
                            provider |-> MapGet(hostProviders, id)]
            /\ last' = Done("sessionsUpdate", id, "pending",
                            <<Eff("onDidChangeSessions", id, EventName(event), MapHas(hostProviders, id)),
                              Eff("updateSessionItems", id, MapGet(hostProviders, id), TRUE)>>)
       ELSE /\ hostTask' = hostTask
            /\ last' = Done("sessionsUpdate", id, "ok", <<>>)
    /\ UNCHANGED <<hostProviders, signInRequestItems, placeholderMenuItem, noAccountsMenuItem,
                   badgeDisposable, hostDisposed, storage>>
    /\ UNCHANGED extVars

\* sessionsUpdate(id, event) up to its first await.
sessionsUpdate(id, event) ==
    /\ hostTask.pc = "idle"
    /\ IF MapHas(hostProviders, id)
       THEN /\ hostTask' = [pc |-> "updateSessionItems", id |-> id, event |-> event,
                            provider |-> MapGet(hostProviders, id)]
            /\ last' = Done("sessionsUpdate", id, "pending",
                            <<Eff("onDidChangeSessions", id, EventName(event), MapHas(hostProviders, id)),
                              Eff("updateSessionItems", id, MapGet(hostProviders, id), TRUE)>>)
       ELSE /\ hostTask' = hostTask
            /\ last' = Done("sessionsUpdate", id, "ok",
                            <<Eff("onDidChangeSessions", id, EventName(event), MapHas(hostProviders, id))>>)
    /\ UNCHANGED <<hostProviders, signInRequestItems, placeholderMenuItem, noAccountsMenuItem,
                   badgeDisposable, hostDisposed, storage>>
    /\ UNCHANGED extVars

\* sessionsUpdate after provider.updateSessionItems(event) has settled.
sessionsUpdateResume ==
    /\ hostTask.pc = "updateSessionItems"
    /\ LET r == updateNewSessionRequests(signInRequestItems, badgeDisposable, hostTask.provider)
       IN  /\ noAccountsMenuItem' = updateAccountsMenuItem(hostProviders, noAccountsMenuItem)
           \* event.added is an array, and every array is truthy
           /\ signInRequestItems' = r.items
           /\ badgeDisposable' = r.badge
           /\ last' = Done("sessionsUpdate", hostTask.id, IF r.ok THEN "ok" ELSE "error", r.effects)
    /\ hostTask' = IdleTask
    /\ UNCHANGED <<hostProviders, placeholderMenuItem, hostDisposed, storage>>
    /\ UNCHANGED extVars

\* Mutant of requestNewSessionItems: the statements that are commented out in the
\* source are in effect, and the request is added to the map.
requestNewSessionItems_Stored(providers, items, providerId, scopes, extensionId) ==
    IF MapHas(providers, providerId)
    THEN LET scopesList == HostScopeKey(scopes)
             providerRequests == IF MapHas(items, providerId) THEN MapGet(items, providerId) ELSE <<>>
             existingRequest == IF MapHas(providerRequests, scopesList)
                                THEN MapGet(providerRequests, scopesList)
                                ELSE [disposables |-> <<>>, requestingExtensionIds |-> <<>>]
             extensionHasExistingRequest ==
                 \E i \in 1..Len(existingRequest.requestingExtensionIds) :
                     existingRequest.requestingExtensionIds[i] = extensionId
         IN  IF extensionHasExistingRequest THEN items
             ELSE MapSet(items, providerId,
                         MapSet(providerRequests, scopesList,
                                [disposables |-> existingRequest.disposables
                                                     \o <<"menuItem", "signInCommand">>,
                                 requestingExtensionIds |->
                                     Append(existingRequest.requestingExtensionIds, extensionId)]))
    ELSE items

\* requestNewSession: the map it leaves.  The statements that would add or extend
\* an entry (lines 264-322) are commented out in the source.
requestNewSessionItems(providers, items, providerId, scopes, extensionId) ==
    IF MapHas(providers, providerId)
    THEN LET scopesList == HostScopeKey(scopes)
             extensionHasExistingRequest ==
                 /\ MapHas(items, providerId)
                 /\ MapHas(MapGet(items, providerId), scopesList)
                 /\ \E i \in 1..Len(MapGet(MapGet(items, providerId), scopesList).requestingExtensionIds) :
                        MapGet(MapGet(items, providerId), scopesList).requestingExtensionIds[i] = extensionId
         IN  IF extensionHasExistingRequest THEN items ELSE items
    ELSE items

requestNewSession(providerId, scopes, extensionId) ==
    /\ signInRequestItems' =
           requestNewSessionItems(hostProviders, signInRequestItems, providerId, scopes, extensionId)
    /\ last' = Done("requestNewSession", providerId, "ok", <<>>)
    /\ UNCHANGED <<hostProviders, placeholderMenuItem, noAccountsMenuItem, badgeDisposable,
                   hostDisposed, hostTask, storage>>
    /\ UNCHANGED extVars

UnknownProvider == "No authentication provider is currently registered"

\* Mutant of hostRead: an unknown id is answered with undefined instead of an error.
hostRead_NoError(op, id) ==
    /\ last' = IF MapHas(hostProviders, id)
               THEN Done(op, id, "ok", <<Eff(op, id, MapGet(hostProviders, id), TRUE)>>)
               ELSE Done(op, id, "ok", <<>>)
    /\ UNCHANGED hostVars
    /\ UNCHANGED extVars

\* The operations that read the provider: getDisplayName, supportsMultipleAccounts, getSessions.
hostRead(op, id) ==
    /\ last' = IF MapHas(hostProviders, id)
               THEN Done(op, id, "ok", <<Eff(op, id, MapGet(hostProviders, id), TRUE)>>)
               ELSE Done(op, id, UnknownProvider, <<>>)
    /\ UNCHANGED hostVars
    /\ UNCHANGED extVars

getDisplayName(id) == hostRead("getDisplayName", id)
supportsMultipleAccounts(id) == hostRead("supportsMultipleAccounts", id)
getSessions(id) == hostRead("getSessions", id)
signOutOfAccount(id, accountName) == hostRead("signOutOfAccount", id)

login(id, scopes) ==
    /\ IF MapHas(hostProviders, id)
       THEN LET provider == MapGet(hostProviders, id) IN
            \E account \in Accounts :
              LET r == HostProvider_login(provider, scopes, account) IN
              /\ r.ok => TotalSessions < MaxSessions
              /\ sessions' = r.sessions
              /\ last' = Done("login", id, IF r.ok THEN "ok" ELSE "error",
                              <<Eff("login", id, provider, TRUE)>>)
       ELSE /\ sessions' = sessions
            /\ last' = Done("login", id, UnknownProvider, <<>>)
    /\ UNCHANGED hostVars
    /\ UNCHANGED <<extProviders, listeners, calls, trusted, probe>>

logout(id, sessionId) ==
    /\ IF MapHas(hostProviders, id)
       THEN LET provider == MapGet(hostProviders, id)
                r == HostProvider_logout(provider, sessionId)
            IN  /\ sessions' = r.sessions
                /\ last' = Done("logout", id, IF r.ok THEN "ok" ELSE "error",
                                <<Eff("logout", id, provider, TRUE)>>)
       ELSE /\ sessions' = sessions
            /\ last' = Done("logout", id, UnknownProvider, <<>>)
    /\ UNCHANGED hostVars
    /\ UNCHANGED <<extProviders, listeners, calls, trusted, probe>>

----------------------------------------------------------------------------
(* readAllowedExtensions and the StorageService *)

\* The key `${providerId}-${accountName}`, kept in its parts.
StorageKey(providerId, accountName) == <<providerId, "-", accountName>>
StorageKeys == {StorageKey(p, a) : p \in ProviderIds, a \in Accounts}

\* Texts a key may hold: the empty string, a text that is not JSON, and the JSON
\* texts of null, of the empty list, and of lists of one and two AllowedExtension.
StoredTexts == {"", "{oops", "null", "[]", "[foo]", "[foo,bar]"}

AllowedFoo == [id |-> "ext.foo", name |-> "Foo"]
AllowedBar == [id |-> "ext.bar", name |-> "Bar"]
EmptyList == [type |-> "array", items |-> <<>>]

\* JSON.parse(text): the value, or ok = FALSE where it throws a SyntaxError.
JSONparse(text) ==
    CASE text = "null" -> [ok |-> TRUE, value |-> [type |-> "null", items |-> <<>>]]
      [] text = "[]" -> [ok |-> TRUE, value |-> EmptyList]
      [] text = "[foo]" -> [ok |-> TRUE, value |-> [type |-> "array", items |-> <<AllowedFoo>>]]
      [] text = "[foo,bar]" ->
             [ok |-> TRUE, value |-> [type |-> "array", items |-> <<AllowedFoo, AllowedBar>>]]
      [] OTHER -> [ok |-> FALSE, value |-> EmptyList]

\* Mutant of readAllowedExtensionsResult: without the try/catch.
readAllowedExtensionsResult_Uncaught(src, fails) ==
    IF fails THEN [outcome |-> "error", value |-> EmptyList]
    ELSE IF src # Undefined /\ src # ""
         THEN IF JSONparse(src).ok
              THEN [outcome |-> "ok", value |-> JSONparse(src).value]
              ELSE [outcome |-> "error", value |-> EmptyList]
         ELSE [outcome |-> "ok", value |-> EmptyList]

\* What readAllowedExtensions returns when the key holds src and getData rejects
\* (fails) or resolves with src.
readAllowedExtensionsResult(src, fails) ==
    IF fails THEN [outcome |-> "ok", value |-> EmptyList]
    ELSE IF src # Undefined /\ src # ""
         THEN IF JSONparse(src).ok
              THEN [outcome |-> "ok", value |-> JSONparse(src).value]
              ELSE [outcome |-> "ok", value |-> EmptyList]
         ELSE [outcome |-> "ok", value |-> EmptyList]

NoRead == [key |-> <<>>, failed |-> FALSE, outcome |-> "none", value |-> EmptyList]
NoStorage == [data |-> [k \in StorageKeys |-> Undefined], read |-> NoRead]

readAllowedExtensions(providerId, accountName, fails) ==
    LET key == StorageKey(providerId, accountName)
        r == readAllowedExtensionsResult(storage.data[key], fails)
    IN  /\ storage' = [storage EXCEPT !.read = [key |-> key, failed |-> fails,
                                                outcome |-> r.outcome, value |-> r.value]]
        /\ UNCHANGED <<hostProviders, signInRequestItems, placeholderMenuItem, noAccountsMenuItem,
                       badgeDisposable, hostDisposed, hostTask>>
        /\ UNCHANGED <<extProviders, listeners, sessions, calls, trusted, last, probe>>

----------------------------------------------------------------------------
(* Extension side: AuthenticationExtImpl *)

DuplicateProvider == "An authentication provider with this id is already registered"
ConsentDenied == "User did not consent to login."

Ext_registerAuthenticationProvider(o) ==
    /\ IF MapHas(extProviders, ExtObjId(o))
       THEN /\ extProviders' = extProviders
            /\ listeners' = listeners
            /\ last' = Done("Ext_registerAuthenticationProvider", ExtObjId(o), DuplicateProvider, <<>>)
       ELSE /\ extProviders' = MapSet(extProviders, ExtObjId(o), o)
            /\ listeners' = [listeners EXCEPT ![o] = @ + 1]
            /\ last' = Done("Ext_registerAuthenticationProvider", ExtObjId(o), "ok",
                            <<Eff("$registerAuthenticationProvider", ExtObjId(o), o, TRUE)>>)
    /\ UNCHANGED hostVars
    /\ UNCHANGED <<sessions, calls, trusted, probe>>

\* Mutant of Ext_disposeRegistration: the listener is not disposed.
Ext_disposeRegistration_KeepsListener(o) ==
    /\ MapHas(extProviders, ExtObjId(o))
    /\ MapGet(extProviders, ExtObjId(o)) = o
    /\ listeners[o] < 2
    /\ extProviders' = MapDelete(extProviders, ExtObjId(o))
    /\ listeners' = listeners
    /\ last' = Done("Ext_disposeRegistration", ExtObjId(o), "ok",
                    <<Eff("$unregisterAuthenticationProvider", ExtObjId(o), o, TRUE)>>)
    /\ UNCHANGED hostVars
    /\ UNCHANGED <<sessions, calls, trusted, probe>>

\* dispose() of the Disposable that registerAuthenticationProvider(o) returned; a
\* Disposable runs its function once.
Ext_disposeRegistration(o) ==
    /\ MapHas(extProviders, ExtObjId(o))
    /\ MapGet(extProviders, ExtObjId(o)) = o
    /\ extProviders' = MapDelete(extProviders, ExtObjId(o))
    /\ listeners' = [listeners EXCEPT ![o] = @ - 1]
    /\ last' = Done("Ext_disposeRegistration", ExtObjId(o), "ok",
                    <<Eff("$unregisterAuthenticationProvider", ExtObjId(o), o, TRUE)>>)
    /\ UNCHANGED hostVars
    /\ UNCHANGED <<sessions, calls, trusted, probe>>

\* The provider fires its onDidChangeSessions: each listener of AuthenticationExtImpl
\* sends $sendDidChangeSessions(provider.id, e).
Provider_onDidChangeSessions(o, event) ==
    /\ last' = Done("onDidChangeSessions", ExtObjId(o), "ok",
                    [i \in 1..listeners[o] |->
                        Eff("$sendDidChangeSessions", ExtObjId(o), EventName(event), TRUE)])
    /\ UNCHANGED hostVars
    /\ UNCHANGED <<extProviders, listeners, sessions, calls, trusted, probe>>

IdleCall ==
    [pc |-> "idle", providerId |-> Undefined, scopes |-> <<>>, createIfNone |-> FALSE,
     provider |-> Undefined, matches |-> <<>>, session |-> <<>>, prompted |-> Undefined,
     consent |-> "none", outcome |-> "pending", result |-> <<>>, trace |-> <<>>,
     retry |-> FALSE]

\* The call repeats, with the same arguments, a call that ended with the consent error.
IsRetry(c, providerId, scopes, createIfNone) ==
    /\ c.pc = "done" /\ c.outcome = ConsentDenied
    /\ c.providerId = providerId /\ sort(c.scopes) = sort(scopes)
    /\ c.createIfNone = createIfNone

\* session.scopes.sort() sorts the array of the session object in place.
SortedInPlace(list) == [i \in 1..Len(list) |-> [list[i] EXCEPT !.scopes = sort(@)]]

\* The sessions whose scopes.sort().join(' ') equals orderedScopes.
MatchingSessions(list, orderedScopes) ==
    SelectSeq(SortedInPlace(list), LAMBDA x : ExtScopeKey(x.scopes) = orderedScopes)

\* Mutant of getSession: a provider that is not registered locally is an error.
getSession_LocalOnly(plugin, providerId, scopes, createIfNone) ==
    /\ calls[plugin].pc \in {"idle", "done"}
    /\ calls' = [calls EXCEPT ![plugin] =
           IF ~MapHas(extProviders, providerId)
           THEN [IdleCall EXCEPT !.pc = "done", !.providerId = providerId,
                                 !.scopes = scopes, !.createIfNone = createIfNone,
                                 !.outcome = UnknownProvider,
                                 !.retry = IsRetry(calls[plugin], providerId, scopes, createIfNone)]
           ELSE [IdleCall EXCEPT !.pc = "getSessions", !.providerId = providerId,
                                 !.scopes = sort(scopes), !.createIfNone = createIfNone,
                                 !.provider = MapGet(extProviders, providerId),
                                 !.trace = <<"getSessions">>,
                                 !.retry = IsRetry(calls[plugin], providerId, scopes, createIfNone)]]
    /\ UNCHANGED hostVars
    /\ UNCHANGED <<extProviders, listeners, sessions, trusted, last, probe>>

\* Mutant of getSession: a call that repeats a denied call fails at once.
getSession_DenialRemembered(plugin, providerId, scopes, createIfNone) ==
    /\ calls[plugin].pc \in {"idle", "done"}
    /\ calls' = [calls EXCEPT ![plugin] =
           IF IsRetry(calls[plugin], providerId, scopes, createIfNone)
           THEN [IdleCall EXCEPT !.pc = "done", !.providerId = providerId,
                                 !.scopes = scopes, !.createIfNone = createIfNone,
                                 !.outcome = ConsentDenied, !.retry = TRUE]
           ELSE IF ~MapHas(extProviders, providerId)
           THEN [IdleCall EXCEPT !.pc = "$getSession", !.providerId = providerId,
                                 !.scopes = scopes, !.createIfNone = createIfNone,
                                 !.trace = <<"$getSession">>]
           ELSE [IdleCall EXCEPT !.pc = "getSessions", !.providerId = providerId,
                                 !.scopes = sort(scopes), !.createIfNone = createIfNone,
                                 !.provider = MapGet(extProviders, providerId),
                                 !.trace = <<"getSessions">>]]
    /\ UNCHANGED hostVars
    /\ UNCHANGED <<extProviders, listeners, sessions, trusted, last, probe>>

\* getSession up to its first await: the lookup, and either the call to the host
\* or scopes.sort() and provider.getSessions().
getSession(plugin, providerId, scopes, createIfNone) ==
    /\ calls[plugin].pc \in {"idle", "done"}
    /\ calls' = [calls EXCEPT ![plugin] =
           IF ~MapHas(extProviders, providerId)
           THEN [IdleCall EXCEPT !.pc = "$getSession", !.providerId = providerId,
                                 !.scopes = scopes, !.createIfNone = createIfNone,
                                 !.trace = <<"$getSession">>,
                                 !.retry = IsRetry(calls[plugin], providerId, scopes, createIfNone)]
           ELSE [IdleCall EXCEPT !.pc = "getSessions", !.providerId = providerId,
                                 !.scopes = sort(scopes), !.createIfNone = createIfNone,
                                 !.provider = MapGet(extProviders, providerId),
                                 !.trace = <<"getSessions">>,
                                 !.retry = IsRetry(calls[plugin], providerId, scopes, createIfNone)]]
    /\ UNCHANGED hostVars
    /\ UNCHANGED <<extProviders, listeners, sessions, trusted, last, probe>>

\* The host's answer to $getSession: it fails when the host has no such provider.
\* How the host resolves the call when it has the provider is not part of these
\* sources; only the outcome the caller sees is modelled.
getSessionRemote(plugin) ==
    /\ calls[plugin].pc = "$getSession"
    /\ \E answer \in {"session", "undefined", ConsentDenied} :
         calls' = [calls EXCEPT ![plugin].pc = "done",
                                ![plugin].outcome =
                                    IF MapHas(hostProviders, calls[plugin].providerId)
                                    THEN answer ELSE UnknownProvider]
    /\ UNCHANGED hostVars
    /\ UNCHANGED <<extProviders, listeners, sessions, trusted, last, probe>>

\* Mutant of getSessionFilter: with createIfNone, login is called without the prompt.
getSessionFilter_NoPrompt(plugin) ==
    LET c == calls[plugin]
        orderedScopes == join(c.scopes, <<0>>)
        found == MatchingSessions(sessions[c.provider], orderedScopes)
        next == IF found # <<>>
                THEN IF ~ExtObjMulti(c.provider) THEN "$getSessionsPrompt" ELSE "$selectSession"
                ELSE IF c.createIfNone THEN "login" ELSE "$requestNewSession"
    IN  /\ c.pc = "getSessions"
        /\ sessions' = [sessions EXCEPT ![c.provider] = SortedInPlace(@)]
        /\ calls' = [calls EXCEPT ![plugin].pc = next,
                                  ![plugin].matches = found,
                                  ![plugin].session = IF next = "$getSessionsPrompt" THEN <<found[1]>> ELSE <<>>,
                                  ![plugin].prompted = IF next = "$getSessionsPrompt"
                                                       THEN found[1].account ELSE Undefined,
                                  ![plugin].trace = Append(@, next)]
        /\ UNCHANGED hostVars
        /\ UNCHANGED <<extProviders, listeners, trusted, last, probe>>

\* After provider.getSessions() has settled: the filter and the branch taken.
getSessionFilter(plugin) ==
    LET c == calls[plugin]
        orderedScopes == join(c.scopes, <<0>>)
        found == MatchingSessions(sessions[c.provider], orderedScopes)
        next == IF found # <<>>
                THEN IF ~ExtObjMulti(c.provider) THEN "$getSessionsPrompt" ELSE "$selectSession"
                ELSE IF c.createIfNone THEN "$loginPrompt" ELSE "$requestNewSession"
    IN  /\ c.pc = "getSessions"
        /\ sessions' = [sessions EXCEPT ![c.provider] = SortedInPlace(@)]
        /\ calls' = [calls EXCEPT ![plugin].pc = next,
                                  ![plugin].matches = found,
                                  ![plugin].session = IF next = "$getSessionsPrompt" THEN <<found[1]>> ELSE <<>>,
                                  ![plugin].prompted = IF next = "$getSessionsPrompt"
                                                       THEN found[1].account ELSE Undefined,
                                  ![plugin].trace = Append(@, next)]
        /\ UNCHANGED hostVars
        /\ UNCHANGED <<extProviders, listeners, trusted, last, probe>>

\* Mutant of getSessionsPromptAnswer: the session is returned whatever the answer.
getSessionsPromptAnswer_Ignored(plugin, allowed) ==
    /\ calls[plugin].pc = "$getSessionsPrompt"
    /\ calls' = [calls EXCEPT ![plugin].pc = "done",
                              ![plugin].consent = IF allowed THEN "allowed" ELSE "denied",
                              ![plugin].result = calls[plugin].session,
                              ![plugin].outcome = "session"]
    /\ UNCHANGED hostVars
    /\ UNCHANGED <<extProviders, listeners, sessions, trusted, last, probe>>

\* The answer to $getSessionsPrompt for sessions[0].
getSessionsPromptAnswer(plugin, allowed) ==
    /\ calls[plugin].pc = "$getSessionsPrompt"
    /\ calls' = [calls EXCEPT ![plugin].pc = "done",
                              ![plugin].consent = IF allowed THEN "allowed" ELSE "denied",
                              ![plugin].result = IF allowed THEN calls[plugin].session ELSE <<>>,
                              ![plugin].outcome = IF allowed THEN "session" ELSE ConsentDenied]
    /\ UNCHANGED hostVars
    /\ UNCHANGED <<extProviders, listeners, sessions, trusted, last, probe>>

\* Mutant of selectSessionAnswer: the first matching session is returned whatever
\* the chosen id.
selectSessionAnswer_First(plugin, selectedId) ==
    /\ calls[plugin].pc = "$selectSession"
    /\ calls' = [calls EXCEPT ![plugin].pc = "done",
                              ![plugin].result = <<calls[plugin].matches[1]>>,
                              ![plugin].outcome = "session"]
    /\ UNCHANGED hostVars
    /\ UNCHANGED <<extProviders, listeners, sessions, trusted, last, probe>>

\* The answer to $selectSession: sessions.find(session => session.id === selected.id).
selectSessionAnswer(plugin, selectedId) ==
    LET found == SelectSeq(calls[plugin].matches, LAMBDA x : x.id = selectedId) IN
    /\ calls[plugin].pc = "$selectSession"
    /\ calls' = [calls EXCEPT ![plugin].pc = "done",
                              ![plugin].result = IF found # <<>> THEN <<found[1]>> ELSE <<>>,
                              ![plugin].outcome = IF found # <<>> THEN "session" ELSE "undefined"]
    /\ UNCHANGED hostVars
    /\ UNCHANGED <<extProviders, listeners, sessions, trusted, last, probe>>

\* The answer to $loginPrompt; when allowed, provider.login(scopes) is called.
loginPromptAnswer(plugin, isAllowed) ==
    /\ calls[plugin].pc = "$loginPrompt"
    /\ calls' = [calls EXCEPT ![plugin].pc = IF isAllowed THEN "login" ELSE "done",
                              ![plugin].consent = IF isAllowed THEN "allowed" ELSE "denied",
                              ![plugin].outcome = IF isAllowed THEN "pending" ELSE ConsentDenied,
                              ![plugin].trace = IF isAllowed THEN Append(@, "login") ELSE @]
    /\ UNCHANGED hostVars
    /\ UNCHANGED <<extProviders, listeners, sessions, trusted, last, probe>>

\* Mutant of loginSettled: a session the provider has for the scopes by now is
\* returned instead of a new one.
loginSettled_Dedup(plugin, account) ==
    LET c == calls[plugin]
        found == MatchingSessions(sessions[c.provider], join(c.scopes, <<0>>))
    IN  /\ c.pc = "login"
        /\ TotalSessions < MaxSessions
        /\ sessions' = IF found # <<>> THEN sessions
                       ELSE ProviderLogin(sessions, c.provider, c.scopes, account)
        /\ calls' = [calls EXCEPT ![plugin].pc = "$setTrustedExtension",
                                  ![plugin].session =
                                      IF found # <<>> THEN <<found[1]>>
                                      ELSE <<NewSession(c.provider, sessions[c.provider], c.scopes, account)>>,
                                  ![plugin].trace = Append(@, "$setTrustedExtension")]
        /\ UNCHANGED hostVars
        /\ UNCHANGED <<extProviders, listeners, trusted, last, probe>>

\* provider.login(scopes) settles with a new session; $setTrustedExtension is called.
loginSettled(plugin, account) ==
    LET c == calls[plugin] IN
    /\ c.pc = "login"
    /\ TotalSessions < MaxSessions
    /\ sessions' = ProviderLogin(sessions, c.provider, c.scopes, account)
    /\ calls' = [calls EXCEPT ![plugin].pc = "$setTrustedExtension",
                              ![plugin].session = <<NewSession(c.provider, sessions[c.provider], c.scopes, account)>>,
                              ![plugin].trace = Append(@, "$setTrustedExtension")]
    /\ UNCHANGED hostVars
    /\ UNCHANGED <<extProviders, listeners, trusted, last, probe>>

\* $setTrustedExtension(providerId, accountName, extensionId, extensionName) on the host.
setTrustedExtension(set, providerId, accountName, extensionId) ==
    set \cup {<<providerId, accountName, extensionId>>}

\* $setTrustedExtension has settled: getSession returns the session.
setTrustedSettled(plugin) ==
    LET c == calls[plugin] IN
    /\ c.pc = "$setTrustedExtension"
    /\ trusted' = setTrustedExtension(trusted, c.providerId, c.session[1].account, toLowerCase(plugin))
    /\ calls' = [calls EXCEPT ![plugin].pc = "done", ![plugin].outcome = "session",
                              ![plugin].result = c.session]
    /\ UNCHANGED hostVars
    /\ UNCHANGED <<extProviders, listeners, sessions, last, probe>>

\* $requestNewSession on the host calls requestNewSession of the service; getSession
\* then returns undefined.
requestNewSessionSettled(plugin) ==
    LET c == calls[plugin] IN
    /\ c.pc = "$requestNewSession"
    /\ signInRequestItems' =
           requestNewSessionItems(hostProviders, signInRequestItems, c.providerId, c.scopes,
                                  toLowerCase(plugin))
    /\ calls' = [calls EXCEPT ![plugin].pc = "done", ![plugin].outcome = "undefined"]
    /\ last' = Done("requestNewSession", c.providerId, "ok", <<>>)
    /\ UNCHANGED <<hostProviders, placeholderMenuItem, noAccountsMenuItem, badgeDisposable,
                   hostDisposed, hostTask, storage>>
    /\ UNCHANGED <<extProviders, listeners, sessions, trusted, probe>>

\* $login(providerId, scopes) and $logout(providerId, sessionId), called by the host.
Ext_loginCall(providerId, scopes, account) ==
    LET r == Ext_login(extProviders, sessions, providerId, scopes, account) IN
    /\ TotalSessions < MaxSessions
    /\ sessions' = r.sessions
    /\ last' = Done("$login", providerId, IF r.ok THEN "ok" ELSE "error", <<>>)
    /\ UNCHANGED hostVars
    /\ UNCHANGED <<extProviders, listeners, calls, trusted, probe>>

Ext_logoutCall(providerId, sessionId) ==
    LET r == Ext_logout(extProviders, sessions, providerId, sessionId) IN
    /\ sessions' = r.sessions
    /\ last' = Done("$logout", providerId, IF r.ok THEN "ok" ELSE "error", <<>>)
    /\ UNCHANGED hostVars
    /\ UNCHANGED <<extProviders, listeners, calls, trusted, probe>>

UnknownHandle == "Unable to find authentication provider with handle"
SessionNotFound == "Unable to find session with id"

\* Mutant of getSessionAccessTokenResult: the token of the provider's first session
\* is returned.
getSessionAccessTokenResult_First(providers, sess, providerId, sessionId) ==
    IF MapHas(providers, providerId)
    THEN LET list == sess[MapGet(providers, providerId)]
         IN  IF list # <<>> THEN list[1].accessToken ELSE SessionNotFound
    ELSE UnknownHandle

\* What $getSessionAccessToken(providerId, sessionId) returns or throws, the
\* provider's getSessions() answering with the sessions it has.
getSessionAccessTokenResult(providers, sess, providerId, sessionId) ==
    IF MapHas(providers, providerId)
    THEN LET found == SelectSeq(sess[MapGet(providers, providerId)], LAMBDA x : x.id = sessionId)
         IN  IF found # <<>> THEN found[1].accessToken ELSE SessionNotFound
    ELSE UnknownHandle

\* $getSessionAccessToken(providerId, sessionId), called by the host.
Ext_getSessionAccessToken(providerId, sessionId) ==
    /\ last' = Done("$getSessionAccessToken", providerId,
                    getSessionAccessTokenResult(extProviders, sessions, providerId, sessionId),
                    <<>>)
    /\ UNCHANGED hostVars
    /\ UNCHANGED <<extProviders, listeners, sessions, calls, trusted, probe>>

\* hasSessions(providerId, scopes) for the sessions resolveSessions(providerId) returned.
hasSessions(list, scopes) == MatchingSessions(list, ExtScopeKey(scopes)) # <<>>

----------------------------------------------------------------------------
(* The scope key on its own: what each place that computes it answers for a
   requested array s1 and a session whose scopes are s2 *)

NoProbe ==
    [s1 |-> <<>>, s2 |-> <<>>, ext |-> "no", host |-> "no",
     extKey1 |-> <<>>, extKey2 |-> <<>>, hasSessions |-> FALSE, getSession |-> FALSE,
     hostKey1 |-> <<>>, hostKey2 |-> <<>>, requestCompleted |-> FALSE]

ProbeSession(scopes) == [id |-> 1, account |-> "alice", scopes |-> scopes]

\* hasSessions and the filter of getSession.
probeExt ==
    /\ probe.ext = "no"
    /\ probe' = [probe EXCEPT
           !.ext = "yes",
           !.extKey1 = ExtScopeKey(probe.s1),
           !.extKey2 = ExtScopeKey(probe.s2),
           !.hasSessions = hasSessions(<<ProbeSession(probe.s2)>>, probe.s1),
           !.getSession =
               MatchingSessions(<<ProbeSession(probe.s2)>>, join(sort(probe.s1), <<0>>)) # <<>>]
    /\ UNCHANGED hostVars
    /\ UNCHANGED <<extProviders, listeners, sessions, calls, trusted, last>>

\* The key of requestNewSession and the test of updateNewSessionRequests.
probeHost ==
    /\ probe.host = "no"
    /\ probe' = [probe EXCEPT
           !.host = "yes",
           !.hostKey1 = HostScopeKey(probe.s1),
           !.hostKey2 = HostScopeKey(probe.s2),
           !.requestCompleted =
               RequestCompleted(<<ProbeSession(probe.s2)>>, HostScopeKey(probe.s1))]
    /\ UNCHANGED hostVars
    /\ UNCHANGED <<extProviders, listeners, sessions, calls, trusted, last>>

----------------------------------------------------------------------------
(* Specifications *)

Init ==
    /\ hostProviders = <<>>
    /\ signInRequestItems = <<>>
    /\ placeholderMenuItem = Undefined
    /\ noAccountsMenuItem = Undefined
    /\ badgeDisposable = Undefined
    /\ hostDisposed = [h \in HostObjs |-> 0]
    /\ hostTask = IdleTask
    /\ storage = NoStorage
    /\ extProviders = <<>>
    /\ listeners = [o \in ExtObjs |-> 0]
    /\ sessions = [o \in ExtObjs |-> <<>>]
    /\ calls = [p \in Plugins |-> IdleCall]
    /\ trusted = {}
    /\ last = Done("new", Undefined, "ok", <<>>)
    /\ probe = NoProbe

\* The calls of the service's clients on the host.
NextHost ==
    \/ \E id \in ProviderIds, h \in HostObjs : registerAuthenticationProvider(id, h)
    \/ \E id \in ProviderIds : unregisterAuthenticationProvider(id)
    \/ \E id \in ProviderIds, event \in SessionEvents : sessionsUpdate(id, event)
    \/ sessionsUpdateResume
    \/ \E id \in ProviderIds, scopes \in ScopeArrays, e \in ExtensionIds :
           requestNewSession(id, scopes, e)
    \/ \E id \in ProviderIds : getDisplayName(id)
    \/ \E id \in ProviderIds : supportsMultipleAccounts(id)
    \/ \E id \in ProviderIds : getSessions(id)
    \/ \E id \in ProviderIds, a \in Accounts : signOutOfAccount(id, a)
    \/ \E id \in ProviderIds, scopes \in ScopeArrays : login(id, scopes)
    \/ \E id \in ProviderIds, sid \in 1..MaxSessions : logout(id, sid)

NoCallInFlight == \A p \in Plugins : calls[p].pc \in {"idle", "done"}

\* The plugins that call getSession, the providers they register, and the
\* providers that other plugin hosts registered with the service.
Callers == {"Ext.Foo"}
LocalObjs == {"A1", "A2"}
ForeignHostObj(id) == IF id = "acme" THEN "H1" ELSE "H3"

\* The calls of plugins on the extension side, one getSession call at a time.
NextExt ==
    \/ \E o \in LocalObjs : Ext_registerAuthenticationProvider(o)
    \/ \E o \in LocalObjs : Ext_disposeRegistration(o)
    \/ \E id \in ProviderIds : registerAuthenticationProvider(id, ForeignHostObj(id))
    \/ \E p \in Callers, id \in ProviderIds, scopes \in ScopeArrays, b \in BOOLEAN :
           NoCallInFlight /\ getSession(p, id, scopes, b)
    \/ \E p \in Callers : getSessionRemote(p)
    \/ \E p \in Callers : getSessionFilter(p)
    \/ \E p \in Callers, b \in BOOLEAN : getSessionsPromptAnswer(p, b)
    \/ \E p \in Callers, sid \in 1..(MaxSessions + 1) : selectSessionAnswer(p, sid)
    \/ \E p \in Callers, b \in BOOLEAN : loginPromptAnswer(p, b)
    \/ \E p \in Callers, a \in Accounts : loginSettled(p, a)
    \/ \E p \in Callers : setTrustedSettled(p)
    \/ \E p \in Callers : requestNewSessionSettled(p)

\* The calls of the host on the extension side.
NextRpc ==
    \/ \E id \in ProviderIds, scopes \in ScopeArrays, a \in Accounts : Ext_loginCall(id, scopes, a)
    \/ \E id \in ProviderIds, sid \in 1..MaxSessions : Ext_logoutCall(id, sid)

Next == NextHost \/ NextExt \/ NextRpc

Spec == Init /\ [][Next]_vars

SpecHost == Init /\ [][NextHost]_vars

SpecExt == Init /\ [][NextExt]_vars

\* The scope key for every pair of scope arrays.
InitKey ==
    /\ hostProviders = <<>>
    /\ signInRequestItems = <<>>
    /\ placeholderMenuItem = Undefined
    /\ noAccountsMenuItem = Undefined
    /\ badgeDisposable = Undefined
    /\ hostDisposed = [h \in HostObjs |-> 0]
    /\ hostTask = IdleTask
    /\ storage = NoStorage
    /\ extProviders = <<>>
    /\ listeners = [o \in ExtObjs |-> 0]
    /\ sessions = [o \in ExtObjs |-> <<>>]
    /\ calls = [p \in Plugins |-> IdleCall]
    /\ trusted = {}
    /\ last = Done("new", Undefined, "ok", <<>>)
    /\ \E a \in ProbeArrays, b \in ProbeArrays : probe = [NoProbe EXCEPT !.s1 = a, !.s2 = b]

NextKey == probeExt \/ probeHost

SpecKey == InitKey /\ [][NextKey]_vars

\* getSession calls with createIfNone of two plugins for one provider, in any
\* interleaving.
RaceObjs == {"A1"}

NextRace ==
    \/ \E o \in RaceObjs : Ext_registerAuthenticationProvider(o)
    \/ \E p \in Plugins, scopes \in ScopeArrays : getSession(p, "acme", scopes, TRUE)
    \/ \E p \in Plugins : getSessionRemote(p)
    \/ \E p \in Plugins : getSessionFilter(p)
    \/ \E p \in Plugins, b \in BOOLEAN : getSessionsPromptAnswer(p, b)
    \/ \E p \in Plugins, b \in BOOLEAN : loginPromptAnswer(p, b)
    \/ \E p \in Plugins, a \in Accounts : loginSettled(p, a)
    \/ \E p \in Plugins : setTrustedSettled(p)

SpecRace == Init /\ [][NextRace]_vars

\* The calls of the host for the providers of this plugin host, with the
\* registrations that come and go.
NextToken ==
    \/ \E o \in ExtObjs : Ext_registerAuthenticationProvider(o)
    \/ \E o \in ExtObjs : Ext_disposeRegistration(o)
    \/ \E id \in ProviderIds : Ext_loginCall(id, <<scA>>, "alice")
    \/ \E id \in ProviderIds, sid \in 1..MaxSessions : Ext_logoutCall(id, sid)
    \/ \E id \in ProviderIds, sid \in 1..(MaxSessions + 1) : Ext_getSessionAccessToken(id, sid)

SpecToken == Init /\ [][NextToken]_vars

\* Registrations and their disposal on the extension side, the logins and logouts
\* that change the providers' sessions, and the providers' own session-change events.
NextReg ==
    \/ \E o \in ExtObjs : Ext_registerAuthenticationProvider(o)
    \/ \E o \in ExtObjs : Ext_disposeRegistration(o)
    \/ \E id \in ProviderIds : Ext_loginCall(id, <<scA>>, "alice")
    \/ \E id \in ProviderIds, sid \in 1..MaxSessions : Ext_logoutCall(id, sid)
    \/ \E o \in ExtObjs, event \in SessionEvents : Provider_onDidChangeSessions(o, event)

SpecReg == Init /\ [][NextReg]_vars

\* readAllowedExtensions for every content of the storage.
InitStore ==
    /\ hostProviders = <<>>
    /\ signInRequestItems = <<>>
    /\ placeholderMenuItem = Undefined
    /\ noAccountsMenuItem = Undefined
    /\ badgeDisposable = Undefined
    /\ hostDisposed = [h \in HostObjs |-> 0]
    /\ hostTask = IdleTask
    /\ \E data \in [StorageKeys -> StoredTexts \cup {Undefined}] :
           storage = [NoStorage EXCEPT !.data = data]
    /\ extProviders = <<>>
    /\ listeners = [o \in ExtObjs |-> 0]
    /\ sessions = [o \in ExtObjs |-> <<>>]
    /\ calls = [p \in Plugins |-> IdleCall]
    /\ trusted = {}
    /\ last = Done("new", Undefined, "ok", <<>>)
    /\ probe = NoProbe

NextStore ==
    \E id \in ProviderIds, a \in Accounts, fails \in BOOLEAN : readAllowedExtensions(id, a, fails)

SpecStore == InitStore /\ [][NextStore]_vars

----------------------------------------------------------------------------
(* Claims *)

HostOps == {"getDisplayName", "supportsMultipleAccounts", "getSessions", "login", "logout",
            "signOutOfAccount"}

\* C1: registering a provider whose id is already present fails with
\* DuplicateProviderError and the registry still maps the id to the provider that was
\* registered first, in the extension-side registry and in the host-side registry.
C1_DuplicateRegistrationFails ==
    [][ /\ \A o \in ExtObjs :
             (Ext_registerAuthenticationProvider(o) /\ MapHas(extProviders, ExtObjId(o)))
                 => (last'.result = DuplicateProvider /\ extProviders' = extProviders)
        /\ \A id \in ProviderIds, h \in HostObjs :
             (registerAuthenticationProvider(id, h) /\ MapHas(hostProviders, id))
                 => (last'.result = DuplicateProvider /\ hostProviders' = hostProviders) ]_vars

\* C9: getDisplayName, supportsMultipleAccounts, getSessions, login, logout and
\* signOutOfAccount, called with an id that is not registered at that moment, fail with
\* the unknown-provider error, call into no provider and leave the registry, the
\* providers' sessions and the sign-in request map as they were.
C9_UnknownProviderFails ==
    [][ (last'.op \in HostOps /\ ~MapHas(hostProviders, last'.id))
            => /\ last'.result = UnknownProvider
               /\ last'.effects = <<>>
               /\ hostProviders' = hostProviders
               /\ signInRequestItems' = signInRequestItems
               /\ sessions' = sessions
               /\ hostDisposed' = hostDisposed ]_vars

\* C9 witness: an operation failed for an unknown id after a provider had been
\* registered and unregistered again.
C9_Witness ==
    /\ last.op \in HostOps
    /\ last.result = UnknownProvider
    /\ ~MapHas(hostProviders, last.id)
    /\ \E h \in HostObjs : hostDisposed[h] = 1 /\ HostObjId(h) = last.id

\* C10: unregisterAuthenticationProvider(id) of an id that is not registered changes
\* nothing, disposes nothing and fires no event; of a registered id it disposes that
\* provider once, removes the id, and fires onDidUnregisterAuthenticationProvider(id)
\* once, when isAuthenticationProviderRegistered(id) is already false; the other
\* entries of the registry stay as they are.
C10_Unregister ==
    [][ last'.op = "unregisterAuthenticationProvider" =>
          LET id == last'.id IN
          IF ~MapHas(hostProviders, id)
          THEN /\ last'.effects = <<>>
               /\ UNCHANGED <<hostVars, extVars>>
          ELSE LET provider == MapGet(hostProviders, id) IN
               /\ Len(last'.effects) = 2
               /\ last'.effects[1].e = "dispose" /\ last'.effects[1].obj = provider
               /\ last'.effects[2].e = "onDidUnregisterAuthenticationProvider"
               /\ last'.effects[2].id = id
               /\ last'.effects[2].seen = FALSE
               /\ hostDisposed' = [hostDisposed EXCEPT ![provider] = @ + 1]
               /\ ~MapHas(hostProviders', id)
               /\ hostProviders' = SelectSeq(hostProviders, LAMBDA e : e.k # id)
               /\ UNCHANGED <<signInRequestItems, extVars>> ]_vars

\* C10 witness: a registered provider was unregistered while another one stayed.
C10_Witness ==
    /\ last.op = "unregisterAuthenticationProvider"
    /\ Len(last.effects) = 2
    /\ Len(hostProviders) = 1

Count(seq, x) == Cardinality({i \in 1..Len(seq) : seq[i] = x})

CreateTrace == <<"getSessions", "$loginPrompt", "login", "$setTrustedExtension">>

\* C2: getSession with createIfNone false, for a registered provider with no session
\* for the scopes, returns undefined without login and leaves exactly one Session
\* Request for the provider and the key of the scopes, listing the requester once; a
\* request of a requester already listed leaves the map as it was.
C2_RequestRecorded ==
    [][ \A p \in Plugins :
          LET c == calls[p]
              d == calls'[p]
              key == HostScopeKey(c.scopes)
          IN  (c.pc = "$requestNewSession" /\ d.pc = "done" /\ MapHas(hostProviders, c.providerId))
                  => /\ d.outcome = "undefined"
                     /\ d.result = <<>>
                     /\ Count(d.trace, "login") = 0
                     /\ MapHas(signInRequestItems', c.providerId)
                     /\ MapHas(MapGet(signInRequestItems', c.providerId), key)
                     /\ Count(MapGet(MapGet(signInRequestItems', c.providerId), key).requestingExtensionIds,
                              toLowerCase(p)) = 1 ]_vars

\* C5: for a locally registered provider with no session for the scopes, getSession
\* with createIfNone true and consent to log in calls login once, after the consent
\* prompt; it records (provider, account of the new session, extension) as trusted
\* only after login has returned; and it returns the session login produced.
C5_CreateSession ==
    [][ /\ \A p \in Plugins :
             LET c == calls[p]
                 d == calls'[p]
             IN  /\ (c.pc = "getSessions" /\ d.pc # c.pc /\ d.matches = <<>> /\ c.createIfNone)
                        => (d.pc = "$loginPrompt" /\ trusted' = trusted)
                 /\ (d.pc = "login" /\ c.pc # "login")
                        => (c.pc = "$loginPrompt" /\ d.consent = "allowed"
                            /\ d.trace = <<"getSessions", "$loginPrompt", "login">>
                            /\ sessions' = sessions /\ trusted' = trusted)
                 /\ (c.pc = "$loginPrompt" /\ d.consent = "allowed") => d.pc = "login"
                 /\ (c.pc = "login" /\ d.pc # c.pc)
                        => (d.pc = "$setTrustedExtension"
                            /\ Len(sessions'[c.provider]) = Len(sessions[c.provider]) + 1
                            /\ d.session = <<sessions'[c.provider][Len(sessions'[c.provider])]>>
                            /\ d.session[1].scopes = c.scopes
                            /\ trusted' = trusted)
                 /\ (c.pc = "$setTrustedExtension" /\ d.pc # c.pc)
                        => (d.pc = "done" /\ d.outcome = "session" /\ d.result = c.session
                            /\ d.trace = CreateTrace
                            /\ sessions' = sessions
                            /\ trusted' = trusted \cup
                                   {<<c.providerId, c.session[1].account, toLowerCase(p)>>})
        /\ (trusted' # trusted => \E p \in Plugins : calls[p].pc = "$setTrustedExtension") ]_vars

\* C5 witness: a call that created a session has returned it.
C5_Witness ==
    \E p \in Plugins :
        /\ calls[p].pc = "done" /\ calls[p].outcome = "session" /\ calls[p].trace = CreateTrace
        /\ <<calls[p].providerId, calls[p].result[1].account, toLowerCase(p)>> \in trusted

\* C6: for a provider without multiple accounts that has a session for the scopes,
\* getSession (createIfNone true or false) prompts for the reuse of the first such
\* session, for that session's account; when denied it fails with the consent error,
\* when allowed it returns that session; login is not called and no sign-in request is
\* made.
C6_ReuseSession ==
    [][ \A p \in Plugins :
          LET c == calls[p]
              d == calls'[p]
          IN  /\ (c.pc = "getSessions" /\ d.pc # c.pc /\ d.matches # <<>> /\ ~ExtObjMulti(c.provider))
                     => (d.pc = "$getSessionsPrompt"
                         /\ d.session = <<d.matches[1]>>
                         /\ d.prompted = d.matches[1].account
                         /\ ExtScopeKey(d.matches[1].scopes) = ExtScopeKey(c.scopes)
                         /\ \E i \in 1..Len(sessions[c.provider]) :
                                /\ sessions[c.provider][i].id = d.matches[1].id
                                /\ sessions[c.provider][i].account = d.matches[1].account)
              /\ (c.pc = "$getSessionsPrompt" /\ d.pc # c.pc)
                     => (d.pc = "done"
                         /\ d.consent \in {"allowed", "denied"}
                         /\ (d.consent = "allowed" => d.outcome = "session" /\ d.result = c.session)
                         /\ (d.consent = "denied" => d.outcome = ConsentDenied /\ d.result = <<>>)
                         /\ d.trace = <<"getSessions", "$getSessionsPrompt">>
                         /\ sessions' = sessions
                         /\ trusted' = trusted
                         /\ signInRequestItems' = signInRequestItems) ]_vars

\* C6 witness: the reuse of a session was denied, in a call with createIfNone true.
C6_Witness ==
    \E p \in Plugins :
        /\ calls[p].pc = "done" /\ calls[p].outcome = ConsentDenied
        /\ calls[p].trace = <<"getSessions", "$getSessionsPrompt">>
        /\ calls[p].createIfNone
        /\ calls[p].matches # <<>>

\* C8 as claimed: getSession for a provider id that is not in the registry of the
\* extension side fails with the unknown-provider error.
C8_MissingProviderFails ==
    \A p \in Plugins :
        (calls[p].pc = "done" /\ calls[p].trace = <<"$getSession">>)
            => calls[p].outcome = UnknownProvider

\* C8 as amended: getSession for a provider id that is not in the registry of the
\* extension side is passed to the host ($getSession); the extension side prompts for
\* no consent, calls no login and makes no sign-in request; the call fails with the
\* unknown-provider error when the host has no such provider either.
C8_MissingProviderForwarded ==
    [][ \A p \in Plugins :
          LET c == calls[p]
              d == calls'[p]
          IN  /\ (c.pc \in {"idle", "done"} /\ d # c /\ ~MapHas(extProviders, d.providerId))
                     => (d.pc = "$getSession" /\ d.trace = <<"$getSession">>
                         /\ d.outcome = "pending"
                         /\ sessions' = sessions /\ trusted' = trusted
                         /\ signInRequestItems' = signInRequestItems)
              /\ (c.pc = "$getSession" /\ d.pc # c.pc)
                     => (d.pc = "done" /\ d.trace = <<"$getSession">>
                         /\ (~MapHas(hostProviders, c.providerId)
                                => (d.outcome = UnknownProvider
                                    /\ sessions' = sessions /\ trusted' = trusted
                                    /\ signInRequestItems' = signInRequestItems))) ]_vars

\* C8 witness: a call for a provider that neither side knows has failed.
C8_Witness ==
    \E p \in Plugins :
        /\ calls[p].pc = "done" /\ calls[p].trace = <<"$getSession">>
        /\ calls[p].outcome = UnknownProvider
        /\ ~MapHas(hostProviders, calls[p].providerId)

\* C7: two scope arrays that are permutations of each other have the same key at each
\* place that computes it: hasSessions and getSession find a session of the one for a
\* request of the other, requestNewSession files both under one key, and
\* updateNewSessionRequests takes a session of the one to complete a request of the other.
IsPermutation(s, t) == \A x \in ScopeStrings : Count(s, x) = Count(t, x)

C7_KeyOfPermutation ==
    IsPermutation(probe.s1, probe.s2)
        => /\ probe.ext = "yes"
                => (probe.extKey1 = probe.extKey2 /\ probe.hasSessions /\ probe.getSession)
           /\ probe.host = "yes"
                => (probe.hostKey1 = probe.hostKey2 /\ probe.requestCompleted)

\* C7 witness: the keys of two different arrays with the same scopes were computed.
C7_Witness ==
    /\ probe.ext = "yes" /\ probe.host = "yes"
    /\ probe.s1 # probe.s2
    /\ IsPermutation(probe.s1, probe.s2)

\* C12: requestNewSession(providerId, scopes, extensionId) for a registered provider,
\* when the extension is not yet listed for the provider and the key of the scopes,
\* creates the Session Request or extends it by the extension id: afterwards the map
\* has one entry for the provider and the key, and it lists the extension once.
C12_RequestCreatedOrExtended ==
    [][ \A id \in ProviderIds, scopes \in ScopeArrays, e \in ExtensionIds :
          (requestNewSession(id, scopes, e) /\ MapHas(hostProviders, id))
              => /\ MapHas(signInRequestItems', id)
                 /\ MapHas(MapGet(signInRequestItems', id), HostScopeKey(scopes))
                 /\ Count(MapGet(MapGet(signInRequestItems', id),
                                 HostScopeKey(scopes)).requestingExtensionIds, e) = 1 ]_vars

\* C18: after any sequence of registerAuthenticationProvider,
\* unregisterAuthenticationProvider, requestNewSession and sessionsUpdate calls the map of
\* sign-in requests is empty: no operation adds a Session Request.
C18_NoRequestStored == signInRequestItems = <<>>

\* C18 witness: requestNewSession was called for a registered provider.
C18_Witness ==
    /\ last.op = "requestNewSession"
    /\ MapHas(hostProviders, last.id)
    /\ signInRequestItems = <<>>

\* C20: for every id, isAuthenticationProviderRegistered(id) is true exactly when id
\* occurs in getProviderIds(), and getProviderIds() has no id twice, also after
\* registerAuthenticationProvider(id, provider) with an id other than provider.id.
C20_RegisteredIffListed ==
    /\ \A id \in ProviderIds :
           isAuthenticationProviderRegistered(id) <=> id \in SeqToSet(getProviderIds)
    /\ Cardinality(SeqToSet(getProviderIds)) = Len(getProviderIds)

\* C16: for a provider with multiple accounts that has sessions for the scopes,
\* getSession passes exactly those sessions to $selectSession and returns the one
\* among them whose id is the chosen id; when no such session has the chosen id it
\* returns undefined, with no error, no login and no sign-in request.
C16_SelectSession ==
    [][ \A p \in Plugins :
          LET c == calls[p]
              d == calls'[p]
              list == sessions[c.provider]
          IN  /\ (c.pc = "getSessions" /\ d.pc # c.pc /\ ExtObjMulti(c.provider)
                      /\ \E i \in 1..Len(list) : ExtScopeKey(list[i].scopes) = ExtScopeKey(c.scopes))
                     => (d.pc = "$selectSession"
                         /\ {d.matches[i].id : i \in 1..Len(d.matches)}
                                = {list[i].id : i \in {j \in 1..Len(list) :
                                       ExtScopeKey(list[j].scopes) = ExtScopeKey(c.scopes)}}
                         /\ Cardinality({d.matches[i].id : i \in 1..Len(d.matches)}) = Len(d.matches)
                         /\ \A i \in 1..Len(d.matches) : \E j \in 1..Len(list) :
                                /\ list[j].id = d.matches[i].id
                                /\ list[j].account = d.matches[i].account)
              /\ \A sid \in 1..(MaxSessions + 1) :
                     selectSessionAnswer(p, sid)
                         => (d.pc = "done"
                             /\ d.trace = <<"getSessions", "$selectSession">>
                             /\ (IF \E i \in 1..Len(c.matches) : c.matches[i].id = sid
                                 THEN d.outcome = "session"
                                      /\ \E i \in 1..Len(c.matches) :
                                             c.matches[i].id = sid /\ d.result = <<c.matches[i]>>
                                 ELSE d.outcome = "undefined" /\ d.result = <<>>)
                             /\ sessions' = sessions
                             /\ trusted' = trusted
                             /\ signInRequestItems' = signInRequestItems) ]_vars

\* C16 witness: the chosen id was the id of none of the sessions offered, and the call
\* returned undefined.
C16_Witness ==
    \E p \in Plugins :
        /\ calls[p].pc = "done" /\ calls[p].outcome = "undefined"
        /\ calls[p].trace = <<"getSessions", "$selectSession">>
        /\ calls[p].matches # <<>>

\* C15: readAllowedExtensions(providerId, accountName) never ends with an error: it
\* returns the empty list when the read of the storage fails, when nothing is stored
\* under the key and when what is stored cannot be parsed, and otherwise the value
\* that is stored; it leaves the storage as it is.
C15_ReadAllowedExtensions ==
    [][ \A id \in ProviderIds, a \in Accounts, fails \in BOOLEAN :
          readAllowedExtensions(id, a, fails)
              => LET src == storage.data[StorageKey(id, a)]
                     r == storage'.read
                 IN  /\ r.outcome = "ok"
                     /\ fails => r.value = EmptyList
                     /\ src = Undefined => r.value = EmptyList
                     /\ src \in {"", "{oops"} => r.value = EmptyList
                     /\ (~fails /\ src = "null") => r.value = [type |-> "null", items |-> <<>>]
                     /\ (~fails /\ src = "[]") => r.value = EmptyList
                     /\ (~fails /\ src = "[foo]") => r.value.items = <<AllowedFoo>>
                     /\ (~fails /\ src = "[foo,bar]") => r.value.items = <<AllowedFoo, AllowedBar>>
                     /\ storage'.data = storage.data ]_vars

\* C15 witness: the read of a key that holds a list failed, and the empty list was
\* returned.
C15_Witness ==
    /\ storage.read.outcome = "ok"
    /\ storage.read.failed
    /\ storage.read.value = EmptyList
    /\ storage.data[storage.read.key] = "[foo]"

\* The sessions of every provider, with the scopes of each session in sorted order.
SessionsOf(sess) == [o \in ExtObjs |-> SortedInPlace(sess[o])]

PromptTraces == {<<"getSessions", "$loginPrompt">>, <<"getSessions", "$getSessionsPrompt">>}

\* C14: a getSession call that ends with the consent error (login denied, or reuse of
\* a session denied) has left the registries, the providers' sessions, the trusted
\* extensions and the sign-in requests as they were at each of its steps; and a call
\* that repeats it with the same arguments is not failed from memory: it goes through
\* the lookup and the prompt again.
C14_DeniedLeavesNoTrace ==
    [][ \A p \in Plugins :
          LET c == calls[p]
              d == calls'[p]
          IN  /\ (d # c /\ d.outcome = ConsentDenied /\ d.trace # <<"$getSession">>)
                     => (c.pc \in {"$loginPrompt", "$getSessionsPrompt"}
                         /\ d.pc = "done" /\ d.consent = "denied" /\ d.result = <<>>
                         /\ d.trace \in PromptTraces)
              /\ (d # c /\ d.trace \in PromptTraces \cup {<<"getSessions">>})
                     => (hostProviders' = hostProviders /\ extProviders' = extProviders
                         /\ SessionsOf(sessions') = SessionsOf(sessions)
                         /\ trusted' = trusted
                         /\ signInRequestItems' = signInRequestItems)
              /\ (d # c /\ d.retry /\ d.trace # <<"$getSession">>)
                     => (IF c.pc = "done"
                         THEN d.pc = "getSessions" /\ d.consent = "none" /\ d.outcome = "pending"
                         ELSE IF c.pc = "getSessions"
                         THEN /\ d.consent = "none" /\ d.outcome = "pending"
                              /\ (d.matches = <<>> /\ c.createIfNone) => d.pc = "$loginPrompt"
                              /\ (d.matches # <<>> /\ ~ExtObjMulti(c.provider))
                                     => d.pc = "$getSessionsPrompt"
                         ELSE TRUE) ]_vars

\* C14 witness: a call that repeats a denied call, with the same arguments, is at the
\* consent prompt again.
C14_Witness ==
    \E p \in Plugins :
        /\ calls[p].retry
        /\ calls[p].pc \in {"$loginPrompt", "$getSessionsPrompt"}

\* C19: from the lookup of a locally registered provider until getSession returns,
\* login is called on the provider, and an extension is recorded as trusted for it,
\* only while that provider is still registered.
C19_LoginOnlyWhileRegistered ==
    [][ \A p \in Plugins :
          LET c == calls[p]
              d == calls'[p]
              registered == /\ MapHas(extProviders', c.providerId)
                            /\ MapGet(extProviders', c.providerId) = c.provider
          IN  /\ (c.pc = "$loginPrompt" /\ d.pc = "login") => registered
              /\ (c.pc = "$setTrustedExtension" /\ d.pc = "done") => registered ]_vars

\* C13: two getSession calls with createIfNone for the same provider and scopes that
\* both found no session before either login had settled both call login, and each
\* login adds a session: whenever two calls for the same provider and scopes have
\* both returned a session they created, these are two sessions of the provider with
\* the same scope key.
C13_BothCallsLogin ==
    \A p, q \in Plugins :
        LET c == calls[p]
            d == calls[q]
        IN  (p # q /\ c.pc = "done" /\ d.pc = "done"
                 /\ c.trace = CreateTrace /\ d.trace = CreateTrace
                 /\ c.provider = d.provider /\ c.scopes = d.scopes)
                => /\ c.result[1].id # d.result[1].id
                   /\ ExtScopeKey(c.result[1].scopes) = ExtScopeKey(d.result[1].scopes)
                   /\ \E i, j \in 1..Len(sessions[c.provider]) :
                          /\ i # j
                          /\ sessions[c.provider][i].id = c.result[1].id
                          /\ sessions[c.provider][j].id = d.result[1].id

\* C13 witness: the calls of two plugins for the same provider and scopes have both
\* logged in, and the provider has two sessions with that scope key.
C13_Witness ==
    \E p, q \in Plugins :
        /\ p # q
        /\ calls[p].pc = "done" /\ calls[q].pc = "done"
        /\ calls[p].trace = CreateTrace /\ calls[q].trace = CreateTrace
        /\ calls[p].provider = calls[q].provider /\ calls[p].scopes = calls[q].scopes
        /\ Cardinality({i \in 1..Len(sessions[calls[p].provider]) :
                           ExtScopeKey(sessions[calls[p].provider][i].scopes)
                               = ExtScopeKey(calls[p].scopes)}) = 2

\* C21: two scope arrays that are not permutations of each other never have the same
\* key, so a session for the one is never found for, and never completes a request
\* for, the other; and the extension side (hasSessions, getSession) and the host side
\* (updateNewSessionRequests) give the same answer to whether a session matches the
\* scopes.
C21_KeyInjective ==
    /\ ~IsPermutation(probe.s1, probe.s2)
           => /\ probe.ext = "yes"
                   => (probe.extKey1 # probe.extKey2 /\ ~probe.hasSessions /\ ~probe.getSession)
              /\ probe.host = "yes"
                   => (probe.hostKey1 # probe.hostKey2 /\ ~probe.requestCompleted)
    /\ (probe.ext = "yes" /\ probe.host = "yes")
           => (probe.hasSessions = probe.requestCompleted)

\* C22: sessionsUpdate(id, event) fires onDidChangeSessions({providerId: id, event})
\* once, before it calls updateSessionItems of the provider and before any sign-in
\* request is looked at; for an id that is not registered it fires the event and does
\* nothing else: no call into a provider, no change of the sign-in requests.
C22_SessionsChangedFirst ==
    [][ /\ \A id \in ProviderIds, event \in SessionEvents :
             sessionsUpdate(id, event)
                 => LET effs == last'.effects IN
                    /\ Len(effs) >= 1
                    /\ effs[1].e = "onDidChangeSessions"
                    /\ effs[1].id = id /\ effs[1].obj = EventName(event)
                    /\ \A i \in 2..Len(effs) : effs[i].e # "onDidChangeSessions"
                    /\ signInRequestItems' = signInRequestItems
                    /\ hostProviders' = hostProviders
                    /\ IF MapHas(hostProviders, id)
                       THEN /\ Len(effs) = 2
                            /\ effs[2].e = "updateSessionItems"
                            /\ effs[2].obj = MapGet(hostProviders, id)
                            /\ hostTask'.pc = "updateSessionItems"
                       ELSE /\ Len(effs) = 1
                            /\ last'.result = "ok"
                            /\ UNCHANGED <<hostVars, extVars>>
        /\ (hostTask.pc = "updateSessionItems" /\ hostTask'.pc = "idle")
               => \A i \in 1..Len(last'.effects) : last'.effects[i].e # "onDidChangeSessions" ]_vars

\* C22 witness: sessionsUpdate was called for an id that is not registered while
\* another provider is registered, and only the event was fired.
C22_Witness ==
    /\ last.op = "sessionsUpdate"
    /\ last.result = "ok"
    /\ Len(last.effects) = 1
    /\ last.effects[1].e = "onDidChangeSessions"
    /\ ~MapHas(hostProviders, last.id)
    /\ hostProviders # <<>>

\* C24: $getSessionAccessToken(providerId, sessionId) returns the access token of the
\* session of that provider whose id is sessionId; it fails with the session-not-found
\* error when the provider is registered and has no session with that id, and with the
\* unknown-provider error when no provider is registered under providerId; it never
\* returns the token of a session with another id or of another provider.
C24_AccessTokenOfSession ==
    [][ \A id \in ProviderIds, sid \in 1..(MaxSessions + 1) :
          Ext_getSessionAccessToken(id, sid)
              => /\ IF ~MapHas(extProviders, id)
                    THEN last'.result = UnknownHandle
                    ELSE LET o == MapGet(extProviders, id) IN
                         IF \E i \in 1..Len(sessions[o]) : sessions[o][i].id = sid
                         THEN /\ last'.result = AccessToken(o, sid)
                              /\ \E i \in 1..Len(sessions[o]) :
                                     /\ sessions[o][i].id = sid
                                     /\ sessions[o][i].accessToken = last'.result
                              /\ \A p \in ExtObjs : \A i \in 1..Len(sessions[p]) :
                                     sessions[p][i].accessToken = last'.result
                                         => (p = o /\ sessions[p][i].id = sid)
                         ELSE last'.result = SessionNotFound
                 /\ UNCHANGED <<hostVars, extVars>> ]_vars

\* C24 witness: the provider has no session with the id asked for, while it has
\* another session and another provider has a session with that id; the call failed
\* with the session-not-found error.
C24_Witness ==
    /\ last.op = "$getSessionAccessToken"
    /\ last.result = SessionNotFound
    /\ MapHas(extProviders, last.id)
    /\ sessions[MapGet(extProviders, last.id)] # <<>>
    /\ \E p \in ExtObjs : p # MapGet(extProviders, last.id) /\ sessions[p] # <<>>

\* C23: on the extension side a registerAuthenticationProvider(provider) that succeeds
\* sends one $registerAuthenticationProvider and from then on sends one
\* $sendDidChangeSessions for each session-change event of the provider; disposing the
\* handle it returned removes the provider from the registry, sends one
\* $unregisterAuthenticationProvider and ends the forwarding: an event of a provider
\* that is not registered sends nothing; and the id can then be registered again.
C23_RegistrationMessages ==
    [][ /\ \A o \in ExtObjs :
             Ext_registerAuthenticationProvider(o)
                 => IF MapHas(extProviders, ExtObjId(o))
                    THEN /\ last'.result = DuplicateProvider
                         /\ last'.effects = <<>>
                         /\ extProviders' = extProviders
                    ELSE /\ last'.result = "ok"
                         /\ last'.effects =
                                <<Eff("$registerAuthenticationProvider", ExtObjId(o), o, TRUE)>>
                         /\ MapHas(extProviders', ExtObjId(o))
                         /\ MapGet(extProviders', ExtObjId(o)) = o
        /\ \A o \in ExtObjs, event \in SessionEvents :
             Provider_onDidChangeSessions(o, event)
                 => IF MapHas(extProviders, ExtObjId(o)) /\ MapGet(extProviders, ExtObjId(o)) = o
                    THEN last'.effects =
                             <<Eff("$sendDidChangeSessions", ExtObjId(o), EventName(event), TRUE)>>
                    ELSE last'.effects = <<>>
        /\ \A o \in ExtObjs :
             Ext_disposeRegistration(o)
                 => /\ ~MapHas(extProviders', ExtObjId(o))
                    /\ extProviders' = SelectSeq(extProviders, LAMBDA x : x.k # ExtObjId(o))
                    /\ last'.effects =
                           <<Eff("$unregisterAuthenticationProvider", ExtObjId(o), o, TRUE)>> ]_vars

\* C23 witness: a session-change event of a registered provider was sent on to the
\* host, once.
C23_Witness ==
    /\ last.op = "onDidChangeSessions"
    /\ Len(last.effects) = 1
    /\ last.effects[1].e = "$sendDidChangeSessions"
    /\ MapHas(extProviders, last.id)

=============================================================================
